---- MODULE Spec2Model ----
(***************************************************************************)
(* Model of goal_budget_app.py: the per-paycheck allocation of savings     *)
(* goals.  One script run (a Streamlit rerun) is one action: it loads the  *)
(* stored goals, fills in missing keys, renders the editable rows, then    *)
(* either deletes / adds a goal or computes the allocation and writes the  *)
(* effective saved amount back to the stored goals.                        *)
(*                                                                         *)
(* Money is a Python float in the program; here it is an exact rational    *)
(* <<numerator, denominator>> in lowest terms, so every statement below is *)
(* a statement in exact arithmetic.  A date object is the number of days   *)
(* since 2024-01-01.  The clock does not advance within a behaviour: today *)
(* is drawn once.                                                          *)
(***************************************************************************)
EXTENDS Integers, Sequences, FiniteSets, TLC

VARIABLES
    users_file,        \* users.json: the current user's stored "expenses"
    expenses,          \* st.session_state.expenses
    today,             \* datetime.date.today()
    pay,               \* the paycheck inputs: paycheck, pay_date, days_between_paychecks
    event,             \* the widget interaction that triggered the last run
    df,                \* the DataFrame of the last run, <<>> if it computed none
    total_allocations, \* df["per_paycheck"].sum()
    leftover,          \* max(paycheck - total_allocations, 0.0)
    outcome,           \* how far the last run got
    runs               \* number of runs so far (counted in AppSpec only)

vars ==
    <<users_file, expenses, today, pay, event, df, total_allocations, leftover, outcome, runs>>

-----------------------------------------------------------------------------
(* Exact rational arithmetic standing for the float operations.            *)

Abs(x) == IF x < 0 THEN -x ELSE x

Max(a, b) == IF a >= b THEN a ELSE b

RECURSIVE GCD(_, _)
GCD(a, b) == IF b = 0 THEN a ELSE GCD(b, a % b)

Rat(n, d) ==
    LET g == GCD(Abs(n), d)
    IN  IF n = 0 THEN <<0, 1>> ELSE <<n \div g, d \div g>>

Zero == <<0, 1>>

FromInt(n) == <<n, 1>>

RAdd(a, b) == Rat(a[1] * b[2] + b[1] * a[2], a[2] * b[2])

RSub(a, b) == Rat(a[1] * b[2] - b[1] * a[2], a[2] * b[2])

RMulInt(a, k) == Rat(a[1] * k, a[2])

RDivInt(a, k) == Rat(a[1], a[2] * k)

RLess(a, b) == a[1] * b[2] < b[1] * a[2]

RLeq(a, b) == a[1] * b[2] <= b[1] * a[2]

RMax(a, b) == IF RLess(a, b) THEN b ELSE a

(* math.ceil(d / k) for an integer d and k > 0 *)
Ceil(d, k) == -((-d) \div k)

-----------------------------------------------------------------------------
(* The allocation computations, one operator per DataFrame column.         *)

days_until_deadline(deadline, pay_date) == deadline - pay_date

(* the floor of 1 left out *)
paychecks_left_unclamped(d, days_between_paychecks) ==
    Ceil(d, days_between_paychecks)

paychecks_left(d, days_between_paychecks) ==
    Max(Ceil(d, days_between_paychecks), 1)

total_paychecks(d, days_between_paychecks) ==
    Max(Ceil(Max(d, 0), days_between_paychecks), 1)

(* counting the current paycheck as elapsed *)
paychecks_elapsed_off_by_one(total, left) == Max(total - left + 1, 0)

paychecks_elapsed(total, left) == Max(total - left, 0)

planned_per_paycheck(target, total) ==
    IF total > 0 THEN RDivInt(target, total) ELSE Zero

auto_saved(planned, elapsed) == RMulInt(planned, elapsed)

(* the larger of the two amounts *)
effective_saved_larger(saved_so_far, auto) ==
    IF RLess(auto, saved_so_far) THEN saved_so_far ELSE auto

(* the inferred amount added to the stored one *)
effective_saved_added(saved_so_far, auto) == RAdd(saved_so_far, auto)

(* the inferred amount whenever there is one *)
effective_saved_reinferred(saved_so_far, auto) ==
    IF RLess(Zero, auto) THEN auto ELSE saved_so_far

effective_saved(saved_so_far, auto) ==
    IF RLess(Zero, saved_so_far) THEN saved_so_far ELSE auto

(* the floor of 0 left out *)
remaining_unclamped(target, effective) == RSub(target, effective)

remaining(target, effective) == RMax(RSub(target, effective), Zero)

(* the current paycheck not counted *)
per_paycheck_excluding_current(rem, left) ==
    IF left > 1 THEN RDivInt(rem, left - 1) ELSE rem

(* one paycheck too many *)
per_paycheck_one_more(rem, left) == RDivInt(rem, left + 1)

per_paycheck(rem, left) == IF left > 0 THEN RDivInt(rem, left) ELSE rem

Leftover(paycheck, total) == RMax(RSub(paycheck, total), Zero)

-----------------------------------------------------------------------------
(* Stored values.  A JSON value of users.json or a value of a goal dict is  *)
(* tagged with what it is: a date field is a date object ("date"), a string *)
(* in ISO format ("iso", with the day it denotes), a string that            *)
(* fromisoformat rejects ("badstr"), null or absent; a numeric field is a   *)
(* number ("num"), a value float() rejects ("invalid") or absent.           *)

DateObj(n) == [kind |-> "date", day |-> n]

IsoStr(n) == [kind |-> "iso", day |-> n]

BadStr == [kind |-> "badstr", day |-> 0]

NullDate == [kind |-> "null", day |-> 0]

MissingDate == [kind |-> "missing", day |-> 0]

Num(r) == [kind |-> "num", val |-> r]

InvalidNum == [kind |-> "invalid", val |-> Zero]

MissingNum == [kind |-> "missing", val |-> Zero]

Name(s) == [kind |-> "str", s |-> s]

MissingName == [kind |-> "missing", s |-> ""]

IsStr(v) == v.kind \in {"iso", "badstr"}

(* datetime.date.fromisoformat inside try/except: the date, or today *)
ParseDate(v, now) == IF v.kind = "iso" THEN DateObj(v.day) ELSE DateObj(now)

(* date.isoformat() *)
isoformat(v) == IsoStr(v.day)

(* load_users: the per-goal conversion of one stored record *)
LoadGoal(exp, now) ==
    [name         |-> exp.name,
     target       |-> IF exp.target.kind = "missing" THEN Num(Zero) ELSE exp.target,
     deadline     |-> IF IsStr(exp.deadline) THEN ParseDate(exp.deadline, now) ELSE exp.deadline,
     created      |-> IF IsStr(exp.created) THEN ParseDate(exp.created, now) ELSE exp.created,
     saved_so_far |-> IF exp.saved_so_far.kind = "missing" THEN Num(Zero) ELSE exp.saved_so_far]

load_users(file, now) == [i \in 1..Len(file) |-> LoadGoal(file[i], now)]

(* save_users: the per-goal conversion of one goal dict *)
SaveGoal(exp) ==
    [exp EXCEPT !.deadline = IF @.kind = "date" THEN isoformat(@) ELSE @,
                !.created  = IF @.kind = "date" THEN isoformat(@) ELSE @]

save_users(goals) == [i \in 1..Len(goals) |-> SaveGoal(goals[i])]

(* "Ensure each goal has necessary keys" *)
DefaultDate(v, now) ==
    LET filled == IF v.kind \in {"missing", "null"} THEN DateObj(now) ELSE v
    IN  IF IsStr(filled) THEN ParseDate(filled, now) ELSE filled

EnsureKeys(goal, now) ==
    [name         |-> IF goal.name.kind = "missing" THEN Name("Unnamed Goal") ELSE goal.name,
     target       |-> IF goal.target.kind = "missing" THEN Num(Zero) ELSE goal.target,
     deadline     |-> DefaultDate(goal.deadline, now),
     created      |-> DefaultDate(goal.created, now),
     saved_so_far |-> IF goal.saved_so_far.kind = "missing" THEN Num(Zero) ELSE goal.saved_so_far]

EnsureAllKeys(goals, now) == [i \in 1..Len(goals) |-> EnsureKeys(goals[i], now)]

(* float(goal["target"]) and float(goal.get("saved_so_far", 0.0)) raise on a *)
(* value that is no number: the run stops in the row loop.                  *)
FloatRaises(v) == v.kind # "num"

RowRaises(goal) == FloatRaises(goal.target) \/ FloatRaises(goal.saved_so_far)

RenderRaises(goals) == \E i \in 1..Len(goals) : RowRaises(goals[i])

(* The widgets of row i return the goal's value, or what the user typed.    *)
(* An event is the one widget interaction that triggered the run: a row     *)
(* edit, a button, or none (a paycheck input or a plain rerun).  A widget   *)
(* whose value= argument differs from the previous run's is a new widget    *)
(* and returns that value.                                                  *)
NoEvent == [type |-> "none", i |-> 0, num |-> Zero, day |-> 0, s |-> ""]

RenderRow(goal, i, ev) ==
    [name         |-> IF ev.type = "name" /\ ev.i = i THEN Name(ev.s) ELSE goal.name,
     target       |-> IF ev.type = "target" /\ ev.i = i THEN Num(ev.num) ELSE goal.target,
     deadline     |-> IF ev.type = "deadline" /\ ev.i = i THEN DateObj(ev.day) ELSE goal.deadline,
     created      |-> goal.created,
     saved_so_far |-> IF ev.type = "saved" /\ ev.i = i THEN Num(ev.num) ELSE goal.saved_so_far]

RenderRows(goals, ev) == [i \in 1..Len(goals) |-> RenderRow(goals[i], i, ev)]

(* pd.to_numeric(..., errors="coerce").fillna(0.0) *)
to_numeric(v) == IF v.kind = "num" THEN v.val ELSE Zero

(* One DataFrame row: the input columns and the computed ones. *)
Row(goal, cycle) ==
    LET target   == to_numeric(goal.target)
        saved    == to_numeric(goal.saved_so_far)
        deadline == goal.deadline.day
        created  == goal.created.day
        dbp      == cycle.days_between_paychecks
        dud      == days_until_deadline(deadline, cycle.pay_date)
        left     == paychecks_left(dud, dbp)
        total    == total_paychecks(deadline - created, dbp)
        elapsed  == paychecks_elapsed(total, left)
        planned  == planned_per_paycheck(target, total)
        auto     == auto_saved(planned, elapsed)
        eff      == effective_saved(saved, auto)
        rem      == remaining(target, eff)
    IN  [name |-> goal.name, target |-> target, deadline |-> deadline,
         created |-> created, saved_so_far |-> saved,
         days_until_deadline |-> dud, paychecks_left |-> left,
         total_paychecks |-> total, paychecks_elapsed |-> elapsed,
         planned_per_paycheck |-> planned, auto_saved |-> auto,
         effective_saved |-> eff, remaining |-> rem,
         per_paycheck |-> per_paycheck(rem, left)]

DataFrame(goals, cycle) == [i \in 1..Len(goals) |-> Row(goals[i], cycle)]

RECURSIVE SumPerPaycheck(_)
SumPerPaycheck(rows) ==
    IF rows = <<>> THEN Zero
    ELSE RAdd(rows[1].per_paycheck, SumPerPaycheck(Tail(rows)))

(* The write-back of the DataFrame into the goal dicts *)
(* the remaining need written back as the target *)
Updated_target_from_remaining(orig, row) ==
    [orig EXCEPT !.name = row.name,
                 !.target = Num(row.remaining),
                 !.deadline = DateObj(row.deadline),
                 !.created = DateObj(row.created),
                 !.saved_so_far = Num(row.effective_saved)]

Updated(orig, row) ==
    [orig EXCEPT !.name = row.name,
                 !.target = Num(row.target),
                 !.deadline = DateObj(row.deadline),
                 !.created = DateObj(row.created),
                 !.saved_so_far = Num(row.effective_saved)]

new_expenses(goals, rows) == [i \in 1..Len(goals) |-> Updated(goals[i], rows[i])]

-----------------------------------------------------------------------------
(* The calendar behind datetime.date: today.day, today.replace(day=28) and  *)
(* today + relativedelta(months=k), on day numbers counted from 2024-01-01. *)

IsLeap(y) == y % 4 = 0 /\ (y % 100 # 0 \/ y % 400 = 0)

DaysInMonth(y, m) ==
    IF m = 2 THEN (IF IsLeap(y) THEN 29 ELSE 28)
    ELSE IF m \in {4, 6, 9, 11} THEN 30 ELSE 31

RECURSIVE DaysBeforeMonth(_, _)
DaysBeforeMonth(y, m) ==
    IF m = 1 THEN 0 ELSE DaysBeforeMonth(y, m - 1) + DaysInMonth(y, m - 1)

DaysBeforeYear(y) ==
    (y - 1) * 365 + ((y - 1) \div 4) - ((y - 1) \div 100) + ((y - 1) \div 400)

Ordinal(y, m, d) == DaysBeforeYear(y) + DaysBeforeMonth(y, m) + d

DayNumber(y, m, d) == Ordinal(y, m, d) - Ordinal(2024, 1, 1)

Civil(n) ==
    CHOOSE c \in [y : 2023..2025, m : 1..12, d : 1..31] :
        c.d <= DaysInMonth(c.y, c.m) /\ DayNumber(c.y, c.m, c.d) = n

ReplaceDay(n, d) == LET c == Civil(n) IN DayNumber(c.y, c.m, d)

AddMonths(n, k) ==
    LET c   == Civil(n)
        idx == c.y * 12 + (c.m - 1) + k
        y2  == idx \div 12
        m2  == (idx % 12) + 1
        d2  == IF c.d <= DaysInMonth(y2, m2) THEN c.d ELSE DaysInMonth(y2, m2)
    IN  DayNumber(y2, m2, d2)

Goal(name, target, deadline, created, saved) ==
    [name |-> Name(name), target |-> Num(FromInt(target)), deadline |-> deadline,
     created |-> created, saved_so_far |-> Num(FromInt(saved))]

(* The goals a user with no expenses is given *)
defaults(now) ==
    LET the28th == IF Civil(now).d <= 28 THEN ReplaceDay(now, 28)
                   ELSE ReplaceDay(AddMonths(now, 1), 28)
        before  == AddMonths(now, -2)
    IN  << Goal("Rent", 1200, DateObj(the28th), DateObj(before), 0),
           Goal("Utilities", 125, DateObj(the28th), DateObj(before), 0),
           Goal("Auto Insurance", 500, DateObj(AddMonths(now, 6)), DateObj(now), 0) >>

new_goal(now) == Goal("New Goal", 0, DateObj(now), DateObj(now), 0)

(* list.pop(i) *)
Pop(seq, i) == [j \in 1..(Len(seq) - 1) |-> IF j < i THEN seq[j] ELSE seq[j + 1]]

-----------------------------------------------------------------------------
(* One script run.  Every run starts by re-syncing the session's expenses   *)
(* from the file and, unless the user has no goals, renders the paycheck    *)
(* inputs and the editable rows.                                            *)

Synced == EnsureAllKeys(load_users(users_file, today), today)

NoResult ==
    /\ df' = <<>>
    /\ total_allocations' = Zero
    /\ leftover' = Zero

(* A user with no expenses gets the defaults, which are saved. *)
RunDefaults ==
    /\ Len(users_file) = 0
    /\ expenses' = defaults(today)
    /\ users_file' = save_users(expenses')
    /\ outcome' = "defaults"
    /\ event' = NoEvent
    /\ NoResult
    /\ UNCHANGED <<today, pay>>

(* float() raises in the row loop: nothing is saved, nothing is computed. *)
RunRaises ==
    /\ Len(users_file) > 0
    /\ RenderRaises(Synced)
    /\ expenses' = Synced
    /\ outcome' = "raised"
    /\ event' = NoEvent
    /\ NoResult
    /\ UNCHANGED <<users_file, today, pay>>

(* The Delete button of row i *)
RunDelete(i) ==
    /\ Len(users_file) > 0
    /\ ~RenderRaises(Synced)
    /\ i \in 1..Len(users_file)
    /\ expenses' = Pop(RenderRows(Synced, NoEvent), i)
    /\ users_file' = save_users(expenses')
    /\ outcome' = "deleted"
    /\ event' = [NoEvent EXCEPT !.type = "delete", !.i = i]
    /\ NoResult
    /\ UNCHANGED <<today, pay>>

(* The "Add New Goal" button *)
RunAdd ==
    /\ Len(users_file) > 0
    /\ ~RenderRaises(Synced)
    /\ expenses' = Append(RenderRows(Synced, NoEvent), new_goal(today))
    /\ users_file' = save_users(expenses')
    /\ outcome' = "added"
    /\ event' = [NoEvent EXCEPT !.type = "add"]
    /\ NoResult
    /\ UNCHANGED <<today, pay>>

(* A run that reaches the allocation: the edits are saved, the DataFrame is *)
(* computed for the paycheck inputs, and the effective saved amounts are    *)
(* written back and saved.                                                  *)
RunAllocate(ev, cycle) ==
    /\ Len(users_file) > 0
    /\ ~RenderRaises(Synced)
    /\ LET edited == RenderRows(Synced, ev)
           rows   == DataFrame(edited, cycle)
           total  == SumPerPaycheck(rows)
       IN  /\ pay' = cycle
           /\ df' = rows
           /\ total_allocations' = total
           /\ leftover' = Leftover(cycle.paycheck, total)
           /\ expenses' = new_expenses(edited, rows)
           /\ users_file' = save_users(expenses')
    /\ outcome' = "allocated"
    /\ event' = ev
    /\ UNCHANGED today

-----------------------------------------------------------------------------
(* Bounds of the model and the inputs drawn within them.                    *)

MaxDay == 42

DayStride == 7

MaxTarget == 2

MaxGoals == 2

Today == 14

MaxRuns == 4

Dates == {d \in 0..MaxDay : d % DayStride = 0}

(* Every other date of the grid: the creation dates and the paycheck dates *)
SparseDates == {d \in 0..MaxDay : d % (2 * DayStride) = 0}

Targets == {60 * k : k \in 0..MaxTarget}

SavedAmounts == {0, 30, 60 * MaxTarget + 30}

Frequencies == {7, 14, 30}

PayCycles ==
    [pay_date : SparseDates, days_between_paychecks : Frequencies,
     paycheck : {FromInt(0), FromInt(100)}]

(* Stored goals as the program itself writes them *)
CleanGoals ==
    {SaveGoal(Goal("Goal", t, DateObj(dl), DateObj(c), s)) :
        t \in Targets, dl \in Dates, c \in SparseDates, s \in SavedAmounts}

(* Stored goals of a users.json written by hand or by an older version *)
RawGoals ==
    [name         : {MissingName, Name("Raw")},
     target       : {MissingNum, InvalidNum, Num(FromInt(60))},
     deadline     : {MissingDate, NullDate, BadStr, IsoStr(4 * DayStride)},
     created      : {MissingDate, BadStr, IsoStr(0)},
     saved_so_far : {MissingNum, Num(Zero)}]

(* Goals of the lists of several goals *)
ListGoals ==
    {SaveGoal(Goal("Listed", t, DateObj(dl), DateObj(0), s)) :
        t \in {60}, dl \in {DayStride, 4 * DayStride}, s \in {0, 90}}

RECURSIVE Lists(_, _)
Lists(S, n) ==
    IF n = 0 THEN {<<>>}
    ELSE {Append(l, g) : l \in Lists(S, n - 1), g \in S}

InitFiles ==
    Lists(CleanGoals \cup RawGoals, 1) \cup UNION {Lists(ListGoals, n) : n \in 2..MaxGoals}

(* The widgets' initial values: paycheck 0.0, today, bi-weekly *)
InitPay(now) == [pay_date |-> now, days_between_paychecks |-> 14, paycheck |-> Zero]

InitRest ==
    /\ expenses = <<>>
    /\ pay = InitPay(today)
    /\ event = NoEvent
    /\ df = <<>>
    /\ total_allocations = Zero
    /\ leftover = Zero
    /\ outcome = "start"
    /\ runs = 0

-----------------------------------------------------------------------------
(* Spec: the allocation engine.  The stored goals are drawn from the        *)
(* bounded sets; every step is a run without a row edit or button, for any  *)
(* paycheck inputs.                                                         *)

Init ==
    /\ today = Today
    /\ users_file \in InitFiles
    /\ InitRest

Allocate ==
    /\ \E cycle \in PayCycles : RunAllocate(NoEvent, cycle)
    /\ UNCHANGED runs

Raise ==
    /\ RunRaises
    /\ UNCHANGED runs

Next == Allocate \/ Raise

Spec == Init /\ [][Next]_vars

-----------------------------------------------------------------------------
(* AppSpec: the application from sign-up on (an account is created with no  *)
(* expenses).  Each run is triggered by one widget: a paycheck input, a row *)
(* edit or a button.  MaxRuns bounds the number of runs.                    *)

AppInit ==
    /\ today \in {Today, Today + 15}
    /\ users_file = <<>>
    /\ InitRest

PayInputs(cur, now) ==
    {[cur EXCEPT !.pay_date = d] : d \in {now, now + 14}}
    \cup {[cur EXCEPT !.days_between_paychecks = f] : f \in Frequencies}
    \cup {[cur EXCEPT !.paycheck = FromInt(p)] : p \in {0, 1000}}

RowEdits(n, now) ==
    {[NoEvent EXCEPT !.type = "name", !.i = i, !.s = "Edited"] : i \in 1..n}
    \cup {[NoEvent EXCEPT !.type = "target", !.i = i, !.num = FromInt(600)] : i \in 1..n}
    \cup {[NoEvent EXCEPT !.type = "deadline", !.i = i, !.day = now + 20] : i \in 1..n}
    \cup {[NoEvent EXCEPT !.type = "saved", !.i = i, !.num = FromInt(a)] : i \in 1..n, a \in {0, 700}}

AppDefaults ==
    /\ runs < MaxRuns
    /\ RunDefaults
    /\ runs' = runs + 1

AppPayInput ==
    /\ runs < MaxRuns
    /\ \E cycle \in PayInputs(pay, today) : RunAllocate(NoEvent, cycle)
    /\ runs' = runs + 1

AppRowEdit ==
    /\ runs < MaxRuns
    /\ \E ev \in RowEdits(Len(users_file), today) : RunAllocate(ev, pay)
    /\ runs' = runs + 1

AppDelete ==
    /\ runs < MaxRuns
    /\ \E i \in 1..Len(users_file) : RunDelete(i)
    /\ runs' = runs + 1

AppAdd ==
    /\ runs < MaxRuns
    /\ RunAdd
    /\ runs' = runs + 1

AppNext == AppDefaults \/ AppPayInput \/ AppRowEdit \/ AppDelete \/ AppAdd

AppSpec == AppInit /\ [][AppNext]_vars

-----------------------------------------------------------------------------
(* Properties of the allocation, stated on the DataFrame of the last run.   *)

Rows == 1..Len(df)

Positive(r) == RLess(Zero, r)

C2_PaycheckCountsAtLeastOne ==
    \A i \in Rows : df[i].paychecks_left >= 1 /\ df[i].total_paychecks >= 1

C2_Witness ==
    \E i \in Rows :
        /\ df[i].deadline < pay.pay_date
        /\ df[i].created > df[i].deadline
        /\ pay.days_between_paychecks = 30

(* C3: no monetary output is negative: remaining >= 0 and per_paycheck >= 0 *)
(* for every goal, and leftover = max(paycheck - total_allocations, 0) >= 0 *)
(* where total_allocations is the sum of per_paycheck.                      *)
C3_NoNegativeMoney ==
    /\ \A i \in Rows :
          RLeq(Zero, df[i].remaining) /\ RLeq(Zero, df[i].per_paycheck)
    /\ RLeq(Zero, leftover)
    /\ total_allocations = SumPerPaycheck(df)
    /\ outcome = "allocated" =>
          leftover = (IF RLess(total_allocations, pay.paycheck)
                      THEN RSub(pay.paycheck, total_allocations) ELSE Zero)

C3_Witness ==
    /\ outcome = "allocated"
    /\ RLess(pay.paycheck, total_allocations)
    /\ leftover = Zero
    /\ \E i \in Rows : RLess(df[i].target, df[i].saved_so_far) /\ df[i].remaining = Zero

(* C4: effective_saved is saved_so_far whenever saved_so_far > 0, and       *)
(* otherwise auto_saved = planned_per_paycheck * paychecks_elapsed; with    *)
(* saved_so_far = 0 and no paycheck elapsed it is 0.                        *)
C4_EffectiveSaved ==
    \A i \in Rows :
        /\ Positive(df[i].saved_so_far) => df[i].effective_saved = df[i].saved_so_far
        /\ ~Positive(df[i].saved_so_far) =>
              /\ df[i].effective_saved = df[i].auto_saved
              /\ df[i].auto_saved =
                    RMulInt(df[i].planned_per_paycheck, df[i].paychecks_elapsed)
        /\ (df[i].saved_so_far = Zero /\ df[i].paychecks_elapsed = 0) =>
              df[i].effective_saved = Zero

C4_Witness ==
    \E i \in Rows :
        /\ Positive(df[i].saved_so_far)
        /\ RLess(df[i].saved_so_far, df[i].auto_saved)
        /\ df[i].effective_saved = df[i].saved_so_far

(* C8: a goal whose deadline is on or before pay_date has paychecks_left = 1 *)
(* and per_paycheck = remaining, a nonzero allocation when remaining > 0.   *)
C8_OverdueLumpAllocation ==
    \A i \in Rows :
        df[i].deadline <= pay.pay_date =>
            /\ df[i].days_until_deadline <= 0
            /\ df[i].paychecks_left = 1
            /\ df[i].per_paycheck = df[i].remaining
            /\ Positive(df[i].remaining) => Positive(df[i].per_paycheck)

C8_Witness ==
    \E i \in Rows :
        /\ df[i].deadline < pay.pay_date
        /\ Positive(df[i].remaining)
        /\ df[i].total_paychecks >= 2

(* C9: for a goal with saved_so_far = 0 and paychecks_left <= total_paychecks *)
(* (as when created <= pay_date), paychecks_elapsed = total_paychecks -      *)
(* paychecks_left <= total_paychecks - 1, per_paycheck equals                *)
(* planned_per_paycheck = target / total_paychecks, and remaining > 0        *)
(* whenever target > 0.                                                      *)
C9_LevelContribution ==
    \A i \in Rows :
        /\ df[i].created <= pay.pay_date => df[i].paychecks_left <= df[i].total_paychecks
        /\ (df[i].saved_so_far = Zero /\ df[i].paychecks_left <= df[i].total_paychecks) =>
              /\ df[i].paychecks_elapsed = df[i].total_paychecks - df[i].paychecks_left
              /\ df[i].paychecks_elapsed <= df[i].total_paychecks - 1
              /\ RMulInt(df[i].planned_per_paycheck, df[i].total_paychecks) = df[i].target
              /\ df[i].per_paycheck = df[i].planned_per_paycheck
              /\ Positive(df[i].target) => Positive(df[i].remaining)

C9_Witness ==
    \E i \in Rows :
        /\ df[i].saved_so_far = Zero
        /\ df[i].paychecks_elapsed >= 1
        /\ df[i].paychecks_left >= 2
        /\ Positive(df[i].target)
        /\ df[i].per_paycheck = df[i].planned_per_paycheck

-----------------------------------------------------------------------------
(* Properties of runs, stated on the steps of the specifications.           *)

(* A saved amount no goal is drawn with: it was inferred by an earlier run. *)
Inferred(r) == Positive(r) /\ r \notin {FromInt(a) : a \in SavedAmounts}

(* C5: a second run with the same paycheck inputs, reading the goals the    *)
(* first run persisted, yields the same effective_saved, remaining and      *)
(* per_paycheck for every goal, the same total_allocations and leftover,    *)
(* and persists the same goals.                                             *)
C5_RerunIsIdempotent ==
    [][(outcome = "allocated" /\ outcome' = "allocated" /\ pay' = pay) =>
          /\ users_file' = users_file
          /\ total_allocations' = total_allocations
          /\ leftover' = leftover
          /\ Len(df') = Len(df)
          /\ \A i \in Rows :
                /\ df'[i].effective_saved = df[i].effective_saved
                /\ df'[i].remaining = df[i].remaining
                /\ df'[i].per_paycheck = df[i].per_paycheck]_vars

C5_Witness ==
    /\ outcome = "allocated"
    /\ \E i \in Rows :
          /\ Inferred(df[i].saved_so_far)
          /\ df[i].auto_saved = df[i].saved_so_far
          /\ Positive(df[i].remaining)

(* C6: a run that reaches the allocation persists a list of the same length *)
(* and order in which every goal's name, target, deadline and created are   *)
(* the stored ones (or, for the one field the user edited in this run, the  *)
(* value typed) and saved_so_far is the run's effective_saved.              *)
FramePreserved(ev) ==
    /\ Len(users_file') = Len(users_file)
    /\ Len(df') = Len(users_file)
    /\ \A i \in 1..Len(users_file) :
          LET old == users_file[i]
              new == users_file'[i]
          IN  /\ new.name = (IF ev.type = "name" /\ ev.i = i THEN Name(ev.s) ELSE old.name)
              /\ new.target = (IF ev.type = "target" /\ ev.i = i THEN Num(ev.num) ELSE old.target)
              /\ new.deadline =
                    (IF ev.type = "deadline" /\ ev.i = i THEN IsoStr(ev.day) ELSE old.deadline)
              /\ new.created = old.created
              /\ new.saved_so_far = Num(df'[i].effective_saved)
              /\ df'[i].name = new.name

C6_RunKeepsStoredFields ==
    [][outcome' = "allocated" => FramePreserved(event')]_vars

C6_Witness ==
    /\ outcome = "allocated"
    /\ Len(df) >= 4
    /\ \E i, j \in Rows :
          /\ i < j
          /\ df[i].name # df[j].name
          /\ df[i].effective_saved # df[i].saved_so_far
          /\ users_file[i].saved_so_far = Num(df[i].effective_saved)
          /\ users_file[j].target = Num(df[j].target)

(* C7: normalization never fails: a run on any stored record raises nothing *)
(* and yields a row for every goal, in which a missing name is the          *)
(* placeholder, a missing or invalid target is 0.0, a missing or unparsable *)
(* deadline or created is today and a missing saved_so_far is 0.0.          *)
Defaulted(exp, row) ==
    /\ exp.name.kind = "missing" => row.name = Name("Unnamed Goal")
    /\ exp.target.kind \in {"missing", "invalid"} => row.target = Zero
    /\ exp.deadline.kind \in {"missing", "null", "badstr"} => row.deadline = today
    /\ exp.created.kind \in {"missing", "null", "badstr"} => row.created = today
    /\ exp.saved_so_far.kind = "missing" => row.saved_so_far = Zero

C7_NormalizationNeverFails ==
    [][/\ outcome' # "raised"
       /\ Len(df') = Len(users_file)
       /\ \A i \in 1..Len(users_file) : Defaulted(users_file[i], df'[i])]_vars

(* C10: over runs with no user edit in between, for any paycheck inputs, a  *)
(* goal's stored saved_so_far never decreases, a stored amount greater than *)
(* 0 is never changed, and a change replaces a stored 0 by auto_saved.      *)
C10_InferenceAtMostOnce ==
    [][outcome' = "allocated" =>
          \A i \in 1..Len(users_file) :
              LET before == to_numeric(users_file[i].saved_so_far)
                  after  == to_numeric(users_file'[i].saved_so_far)
              IN  /\ RLeq(before, after)
                  /\ Positive(before) => after = before
                  /\ after # before =>
                        (before = Zero /\ after = df'[i].auto_saved)]_vars

C10_Witness ==
    /\ outcome = "allocated"
    /\ \E i \in Rows :
          /\ Inferred(df[i].saved_so_far)
          /\ df[i].auto_saved # df[i].saved_so_far
          /\ users_file[i].saved_so_far = Num(df[i].saved_so_far)

====
